---- MODULE Spec2Model ----
(***************************************************************************)
(* A model of friskis.py: the schedule store commands (list, add, remove), *)
(* the occurrence resolver and activity matcher they share with book, and  *)
(* the book run with its per-entry eligibility checks.                     *)
(*                                                                         *)
(* Strings are sequences of one-character strings, so that lower(),        *)
(* strip(), title(), ljust() and the substring test are computed.          *)
(* Instants are seconds since 00:00 UTC of day 0; day 0 is Sunday          *)
(* 2026-03-22, so that the change to summer time (Sunday 2026-03-29,       *)
(* 01:00 UTC) falls on day 7.                                              *)
(***************************************************************************)
EXTENDS Integers, Sequences, FiniteSets, TLC

VARIABLES
    store,      \* the schedule file: a sequence of events (absent file = << >>)
    out,        \* what the last store command reported (kind and its arguments)
    prev,       \* the schedule file as the last store command found it
    resp,       \* the remote responses the last add received
    res,        \* the last result of the occurrence search
    pc,         \* position of the book run: "idle", "loop", "done", "aborted"
    run,        \* locals of the book run: now, existing_bookings, schedule, index
    cur,        \* the last loop iteration of book: its locals and what it did
    trace       \* indexes of the schedule entries the run evaluated, in order

vars == <<store, out, prev, resp, res, pc, run, cur, trace>>

-----------------------------------------------------------------------------
(* Bounds of the model *)

MaxStore == 3       \* longest schedule
MaxDay == 15        \* the current date ranges over days 0..MaxDay
MaxIter == 9        \* the occurrence search is cut off after this many steps

-----------------------------------------------------------------------------
(* Characters and strings *)

UpperLetters == <<"A", "B", "C", "D", "F", "K", "L", "M", "O", "S", "T">>
LowerLetters == <<"a", "b", "c", "d", "f", "k", "l", "m", "o", "s", "t">>

LowerChar(c) ==
    IF \E i \in DOMAIN UpperLetters : UpperLetters[i] = c
    THEN LowerLetters[CHOOSE i \in DOMAIN UpperLetters : UpperLetters[i] = c]
    ELSE c

UpperChar(c) ==
    IF \E i \in DOMAIN LowerLetters : LowerLetters[i] = c
    THEN UpperLetters[CHOOSE i \in DOMAIN LowerLetters : LowerLetters[i] = c]
    ELSE c

IsLetter(c) ==
    \/ \E i \in DOMAIN LowerLetters : LowerLetters[i] = c
    \/ \E i \in DOMAIN UpperLetters : UpperLetters[i] = c
    \/ c \in {"e", "g", "i", "n", "r"}

\* str.lower()
Lower(s) == [i \in DOMAIN s |-> LowerChar(s[i])]

\* str.title(): a letter after a non-letter is upper-cased, the others lower-cased
Title(s) ==
    [i \in DOMAIN s |->
        IF i = 1 \/ ~IsLetter(s[i - 1]) THEN UpperChar(s[i]) ELSE LowerChar(s[i])]

RECURSIVE LStrip(_)
LStrip(s) == IF s # << >> /\ Head(s) = " " THEN LStrip(Tail(s)) ELSE s

RECURSIVE RStrip(_)
RStrip(s) ==
    IF s # << >> /\ s[Len(s)] = " " THEN RStrip(SubSeq(s, 1, Len(s) - 1)) ELSE s

\* str.strip()
Strip(s) == LStrip(RStrip(s))

\* a in b, for strings
IsSubstring(a, b) ==
    \E i \in 0..(Len(b) - Len(a)) : SubSeq(b, i + 1, i + Len(a)) = a

\* str.endswith
EndsWith(s, suffix) ==
    /\ Len(s) >= Len(suffix)
    /\ SubSeq(s, Len(s) - Len(suffix) + 1, Len(s)) = suffix

RECURSIVE Spaces(_)
Spaces(n) == IF n <= 0 THEN << >> ELSE <<" ">> \o Spaces(n - 1)

ListColumnWidth == 16

\* str.ljust(16)
_format_list_display(s) == s \o Spaces(ListColumnWidth - Len(s))

Digits == <<"0", "1", "2", "3", "4", "5", "6", "7", "8", "9">>

TwoDigits(n) == <<Digits[(n \div 10) + 1], Digits[(n % 10) + 1]>>

\* strftime("%H:%M") of an hour and a minute
HHMM(h, m) == TwoDigits(h) \o <<":">> \o TwoDigits(m)

\* callback of the time argument: click has parsed it to an hour and a minute
_datetime_to_time_str(t) == HHMM(t[1], t[2])

_lowercase(s) == Lower(s)

_strip_weekday_plural(weekday) ==
    IF EndsWith(weekday, <<"a", "r">>)
    THEN SubSeq(weekday, 1, Len(weekday) - 2)
    ELSE weekday

_normalize_weekday(weekday) == _strip_weekday_plural(_lowercase(weekday))

\* calendar.day_name under sv_SE, lower-cased (with a for å, o for ö)
WEEKDAYS ==
    << <<"m", "a", "n", "d", "a", "g">>,
       <<"t", "i", "s", "d", "a", "g">>,
       <<"o", "n", "s", "d", "a", "g">>,
       <<"t", "o", "r", "s", "d", "a", "g">>,
       <<"f", "r", "e", "d", "a", "g">>,
       <<"l", "o", "r", "d", "a", "g">>,
       <<"s", "o", "n", "d", "a", "g">> >>

IsWeekday(weekday) == \E i \in DOMAIN WEEKDAYS : WEEKDAYS[i] = weekday

\* WEEKDAYS.index(weekday) + 1; the caller handles the ValueError of a miss
_get_weekday_number(weekday) ==
    CHOOSE i \in DOMAIN WEEKDAYS :
        /\ WEEKDAYS[i] = weekday
        /\ \A j \in 1..(i - 1) : WEEKDAYS[j] # weekday

_get_weekday(weekday_number) == WEEKDAYS[weekday_number]

-----------------------------------------------------------------------------
(* Dates and instants *)

DaySeconds == 86400

\* Europe/Stockholm: UTC+1, and UTC+2 from 01:00 UTC of day 7
UtcOffset(t) == IF t >= 7 * DaySeconds + 3600 THEN 7200 ELSE 3600

\* astimezone(STOCKHOLM_TIMEZONE), as seconds of local wall-clock time
Local(t) == t + UtcOffset(t)

\* datetime.now(STOCKHOLM_TIMEZONE).date()
LocalDate(t) == Local(t) \div DaySeconds

\* .astimezone(STOCKHOLM_TIMEZONE).strftime("%H:%M")
LocalHHMM(t) ==
    LET s == Local(t) % DaySeconds
    IN  HHMM(s \div 3600, (s % 3600) \div 60)

\* date.isoweekday(): day 0 is a Sunday
isoweekday(d) == ((d + 6) % 7) + 1

-----------------------------------------------------------------------------
(* The remote directory: what the HTTP calls of one command return *)

\* a group activity of a listing (duration.start, slots.leftToBook and
\* slots.inWaitingList flattened)
Activity(id, name, start, cancelled, bookableEarliest, leftToBook, inWaitingList) ==
    [id |-> id, name |-> name, start |-> start, cancelled |-> cancelled,
     bookableEarliest |-> bookableEarliest, leftToBook |-> leftToBook,
     inWaitingList |-> inWaitingList]

\* the responses to GET businessunits and GET groupactivities
Response(busStatus, units, actStatus, listing) ==
    [busStatus |-> busStatus, units |-> units,
     actStatus |-> actStatus, listing |-> listing]

NoResponse == Response(0, << >>, 0, << >>)

_get_business_units(rsp) ==
    IF rsp.busStatus # 200
    THEN [raised |-> TRUE, units |-> << >>]
    ELSE [raised |-> FALSE, units |-> rsp.units]

_get_business_unit(name, rsp) ==
    LET got == _get_business_units(rsp)
        hits == {i \in DOMAIN got.units : Lower(got.units[i].name) = Lower(name)}
    IN  IF got.raised THEN [raised |-> "units_failed", unit |-> << >>]
        ELSE IF hits = {} THEN [raised |-> "unit_not_found", unit |-> << >>]
        ELSE [raised |-> "no",
              unit |-> <<got.units[CHOOSE i \in hits : \A j \in hits : i <= j]>>]

_get_group_activities(rsp) ==
    IF rsp.actStatus # 200
    THEN [raised |-> TRUE, listing |-> << >>]
    ELSE [raised |-> FALSE, listing |-> rsp.listing]

\* as ActivityMatches, with the start compared in UTC
ActivityMatchesUtc(group_activity, name, time) ==
    LET has_matching_name == Strip(Lower(group_activity.name)) = Lower(name)
        s == group_activity.start % DaySeconds
        has_matching_time == HHMM(s \div 3600, (s % 3600) \div 60) = time
    IN  has_matching_name /\ has_matching_time

\* lines 169-176: the test of one listed activity
ActivityMatches(group_activity, name, time) ==
    LET has_matching_name == Strip(Lower(group_activity.name)) = Lower(name)
        has_matching_time == LocalHHMM(group_activity.start) = time
    IN  has_matching_name /\ has_matching_time

\* the first matching activity of the listing as <<a>>, or << >> for None
_get_group_activity(name, time, rsp) ==
    LET got == _get_group_activities(rsp)
        hits == {i \in DOMAIN got.listing : ActivityMatches(got.listing[i], name, time)}
    IN  IF got.raised THEN [raised |-> "activities_failed", activity |-> << >>]
        ELSE IF hits = {} THEN [raised |-> "no", activity |-> << >>]
        ELSE [raised |-> "no",
              activity |-> <<got.listing[CHOOSE i \in hits : \A j \in hits : i <= j]>>]

\* as FirstCandidate, with the search starting today
FirstCandidateToday(today) == today

\* line 182: where the search starts
FirstCandidate(today) == today + 1

\* lines 183-184: the while loop, with the number of times its body ran
RECURSIVE SearchWeekday(_, _, _)
SearchWeekday(group_activity_date, weekday_number, n) ==
    IF isoweekday(group_activity_date) # weekday_number /\ n < MaxIter
    THEN SearchWeekday(group_activity_date + 1, weekday_number, n + 1)
    ELSE [date |-> group_activity_date, iters |-> n,
          found |-> isoweekday(group_activity_date) = weekday_number]

NextOccurrence(clock, weekday_number) ==
    SearchWeekday(FirstCandidate(LocalDate(clock)), weekday_number, 0)

_get_upcoming_group_activity(name, location, weekday_number, time, clock, rsp) ==
    LET occ == NextOccurrence(clock, weekday_number)
        bu == _get_business_unit(location, rsp)
        ga == _get_group_activity(name, time, rsp)
    IN  IF bu.raised # "no"
        THEN [raised |-> bu.raised, activity |-> << >>, date |-> occ.date]
        ELSE [raised |-> ga.raised, activity |-> ga.activity, date |-> occ.date]

-----------------------------------------------------------------------------
(* The schedule store *)

Event(name, location, weekday, time) ==
    [name |-> name, location |-> location, weekday |-> weekday, time |-> time]

\* as IsDuplicate, with the title-cased name of the messages compared
IsDuplicateFormattedName(event, name, location, weekday_number, time) ==
    /\ Title(name) = event.name
    /\ location = event.location
    /\ weekday_number = event.weekday
    /\ time = event.time

\* as IsDuplicate, with the index into WEEKDAYS (from 0) compared with the
\* stored weekday number (from 1)
IsDuplicateWeekdayIndex(event, name, location, weekday_number, time) ==
    /\ name = event.name
    /\ location = event.location
    /\ weekday_number - 1 = event.weekday
    /\ time = event.time

\* lines 319-325: the duplicate test of add
IsDuplicate(event, name, location, weekday_number, time) ==
    /\ name = event.name
    /\ location = event.location
    /\ weekday_number = event.weekday
    /\ time = event.time

\* lines 373-378: the match test of remove
RemoveMatches(event, name, location, weekday_number, time) ==
    /\ IsSubstring(Lower(name), Lower(event.name))
    /\ Lower(location) = Lower(event.location)
    /\ weekday_number = event.weekday
    /\ time = event.time

\* line 386: what remove writes back, given the matches it collected
WithoutMatches(schedule, matches) ==
    SelectSeq(schedule, LAMBDA e : \A i \in DOMAIN matches : matches[i] # e)

\* sorted(schedule, key=weekday): a stable sort
RECURSIVE InsertByWeekday(_, _)
InsertByWeekday(e, sorted) ==
    IF sorted = << >> \/ e.weekday <= Head(sorted).weekday
    THEN <<e>> \o sorted
    ELSE <<Head(sorted)>> \o InsertByWeekday(e, Tail(sorted))

RECURSIVE SortedByWeekday(_)
SortedByWeekday(schedule) ==
    IF schedule = << >> THEN << >>
    ELSE InsertByWeekday(Head(schedule), SortedByWeekday(Tail(schedule)))

\* lines 289-301: the columns of one printed line
ListRow(event) ==
    << _format_list_display(event.name),
       _format_list_display(event.location),
       _format_list_display(Title(_get_weekday(event.weekday) \o <<"a", "r">>)),
       _format_list_display(<<"k", "l", ".", " ">> \o event.time) >>

ListRows(schedule) ==
    LET sorted == SortedByWeekday(schedule)
    IN  [i \in DOMAIN sorted |-> ListRow(sorted[i])]

-----------------------------------------------------------------------------
(* Command-line arguments and remote responses the commands are run with *)

NameArgs == { <<"A">>, <<"a", "b">> }
WeekdayArgs ==
    { <<"M", "a", "n", "d", "a", "g">>,
      <<"t", "i", "s", "d", "a", "g", "a", "r">> }
TimeArgs == { <<18, 0>>, <<9, 5>> }

\* name, location, weekday and time as typed: every combination at the
\* location the remote system knows, one at a location it does not know,
\* and one with a word that is no weekday
CommandLines ==
    (NameArgs \X { <<"C">> } \X WeekdayArgs \X TimeArgs)
        \cup { << <<"A">>, <<"d">>, <<"M", "a", "n", "d", "a", "g">>, <<18, 0>> >>,
               << <<"A">>, <<"C">>, <<"s", "o", "n">>, <<18, 0>> >> }

\* noon UTC of day 3 (winter time); 23:00 UTC of day 10 (summer time, and
\* already the next day in Stockholm)
AddClocks == { 3 * DaySeconds + 43200, 10 * DaySeconds + 82800 }

RemoteUnits == << [id |-> 1, name |-> <<"C">>] >>

\* 18:00 in Stockholm in winter time, 18:00 and 20:00:59 in summer time
Start1800Winter == 2 * DaySeconds + 17 * 3600
Start1800Summer == 9 * DaySeconds + 16 * 3600
Start2000Summer == 9 * DaySeconds + 18 * 3600 + 59

Listed(id, name, start) == Activity(id, name, start, FALSE, 0, 1, 0)

AddListings ==
    { << >>,
      << Listed(1, <<"A">>, Start1800Winter) >>,
      << Listed(2, <<"A", "b", " ">>, Start1800Summer) >>,
      << Listed(3, <<"A">>, Start2000Summer) >>,
      << Listed(4, <<"B">>, Start1800Winter) >>,
      << Listed(2, <<"a", "b">>, Start1800Winter),
         Listed(1, <<"a">>, Start1800Summer) >> }

AddResponses ==
    { Response(500, << >>, 0, << >>), Response(200, RemoteUnits, 500, << >>) }
        \cup { Response(200, RemoteUnits, 200, l) : l \in AddListings }

-----------------------------------------------------------------------------
(* The store commands *)

Out(op, kind, name, location, weekday, time, date, rows) ==
    [op |-> op, kind |-> kind, name |-> name, location |-> location,
     weekday |-> weekday, time |-> time, date |-> date, rows |-> rows]

NoOut == Out("none", "none", << >>, << >>, 0, << >>, 0, << >>)

NoOccurrence == [date |-> 0, iters |-> 0, found |-> FALSE, today |-> 0, weekday |-> 0]
NoRun ==
    [now |-> 0, existing_bookings |-> << >>, schedule |-> << >>, index |-> 0,
     raised |-> "no"]
NoIteration ==
    [index |-> 0, activity |-> << >>, date |-> 0, messages |-> << >>,
     submitted |-> << >>, status |-> 0, raised |-> "no"]

BookUnchanged == UNCHANGED <<pc, run, cur, trace>>

\* add, lines 313-354: the kind of its outcome and the schedule it leaves
AddOutcome(schedule, name, location, weekday, time, clock, rsp) ==
    IF ~IsWeekday(weekday)
    THEN [kind |-> "crash", schedule |-> schedule, weekday_number |-> 0, date |-> 0]
    ELSE
    LET weekday_number == _get_weekday_number(weekday)
        upcoming == _get_upcoming_group_activity(
                        name, location, weekday_number, time, clock, rsp)
        result(kind, after, date) ==
            [kind |-> kind, schedule |-> after,
             weekday_number |-> weekday_number, date |-> date]
    IN  IF \E i \in DOMAIN schedule :
               IsDuplicate(schedule[i], name, location, weekday_number, time)
        THEN result("duplicate", schedule, 0)
        ELSE IF upcoming.raised # "no"
        THEN result(upcoming.raised, schedule, 0)
        ELSE IF upcoming.activity = << >>
        THEN result("not_scheduled", schedule, upcoming.date)
        ELSE result("added",
                    schedule \o <<Event(name, location, weekday_number, time)>>, 0)

add(nameArg, locationArg, weekdayArg, timeArg, clock, rsp) ==
    LET name == _lowercase(nameArg)
        location == _lowercase(locationArg)
        weekday == _normalize_weekday(weekdayArg)
        time == _datetime_to_time_str(timeArg)
        schedule == store
    IN  \E o \in {AddOutcome(schedule, name, location, weekday, time, clock, rsp)} :
        /\ Len(o.schedule) <= MaxStore
        /\ store' = o.schedule
        /\ prev' = schedule
        /\ resp' = rsp
        /\ out' = Out("add", o.kind, name, location, o.weekday_number, time,
                      o.date, << >>)
        /\ UNCHANGED res
        /\ BookUnchanged

\* remove, lines 365-390
RemoveOutcome(schedule, name, location, weekday, time) ==
    IF ~IsWeekday(weekday)
    THEN [kind |-> "crash", schedule |-> schedule, weekday_number |-> 0]
    ELSE
    LET weekday_number == _get_weekday_number(weekday)
        matches == SelectSeq(schedule,
                       LAMBDA e : RemoveMatches(e, name, location, weekday_number, time))
    IN  IF Len(matches) = 0
        THEN [kind |-> "no_match", schedule |-> schedule,
              weekday_number |-> weekday_number]
        ELSE [kind |-> "removed", schedule |-> WithoutMatches(schedule, matches),
              weekday_number |-> weekday_number]

remove(nameArg, locationArg, weekdayArg, timeArg) ==
    LET name == _lowercase(nameArg)
        location == _lowercase(locationArg)
        weekday == _normalize_weekday(weekdayArg)
        time == _datetime_to_time_str(timeArg)
        schedule == store
    IN  \E o \in {RemoveOutcome(schedule, name, location, weekday, time)} :
        /\ store' = o.schedule
        /\ prev' = schedule
        /\ resp' = NoResponse
        /\ out' = Out("remove", o.kind, name, location, o.weekday_number, time,
                      0, << >>)
        /\ UNCHANGED res
        /\ BookUnchanged

\* list, lines 287-302
list_schedule ==
    /\ out' = Out("list", "listed", << >>, << >>, 0, << >>, 0, ListRows(store))
    /\ prev' = store
    /\ resp' = NoResponse
    /\ UNCHANGED <<store, res>>
    /\ BookUnchanged

Add ==
    \E line \in CommandLines, clock \in AddClocks, rsp \in AddResponses :
        add(line[1], line[2], line[3], line[4], clock, rsp)

Remove ==
    \E line \in CommandLines :
        remove(line[1], line[2], line[3], line[4])

List == list_schedule

Init ==
    /\ store = << >>
    /\ out = NoOut
    /\ prev = << >>
    /\ resp = NoResponse
    /\ res = NoOccurrence
    /\ pc = "idle"
    /\ run = NoRun
    /\ cur = NoIteration
    /\ trace = << >>

Next == Add \/ Remove \/ List

Spec == Init /\ [][Next]_vars

-----------------------------------------------------------------------------
(* The occurrence search on its own *)

\* 00:00 and 23:00 UTC of the days 0..MaxDay
Clocks == { d * DaySeconds + h : d \in 0..MaxDay, h \in {0, 82800} }

Resolve ==
    /\ \E clock \in Clocks, weekday_number \in DOMAIN WEEKDAYS :
        \E occ \in {NextOccurrence(clock, weekday_number)} :
            res' = [date |-> occ.date, iters |-> occ.iters, found |-> occ.found,
                    today |-> LocalDate(clock), weekday |-> weekday_number]
    /\ UNCHANGED <<store, out, prev, resp>>
    /\ BookUnchanged

ResolveNext == Resolve

ResolveSpec == Init /\ [][ResolveNext]_vars

-----------------------------------------------------------------------------
(* book, lines 396-451 *)

\* the instant booking opens for every activity of the model: 06:00 UTC of day 5
BookableEarliest == 5 * DaySeconds + 21600

\* now, line 397
BookClocks ==
    { BookableEarliest - 1, BookableEarliest, BookableEarliest + 1,
      BookableEarliest + DaySeconds, BookableEarliest + DaySeconds + 1,
      BookableEarliest + 25 * 3600 }

Booking(id) == [groupActivity |-> [id |-> id]]

ExistingBookings == { << >>, << Booking(1) >>, << Booking(2), Booking(1) >> }

\* leftToBook and inWaitingList
Slots == { <<0, 1>>, <<0, 3>>, <<2, 0>> }

BookActivities ==
    { Activity(n[1], n[2], Start1800Winter, c, BookableEarliest, sl[1], sl[2]) :
        n \in { <<1, <<"A">> >>, <<2, <<"A", "b", " ">> >> },
        c \in BOOLEAN, sl \in Slots }

BookResponses ==
    { Response(500, << >>, 0, << >>),
      Response(200, << >>, 0, << >>),
      Response(200, RemoteUnits, 500, << >>),
      Response(200, RemoteUnits, 200, << >>) }
        \cup { Response(200, RemoteUnits, 200, <<a>>) : a \in BookActivities }
        \cup { Response(200, RemoteUnits, 200, << Listed(3, <<"B">>, Start1800Winter), a >>) :
                 a \in { b \in BookActivities : ~b.cancelled } }
        \cup { Response(200, RemoteUnits, 200,
                        << Activity(1, <<"A">>, Start2000Summer, FALSE,
                                    BookableEarliest, 2, 0) >>) }

\* status codes of POST auth/login, GET bookings and POST bookings
LoginStatuses == {200, 401, 500}
BookingsStatuses == {200, 500}
SubmitStatuses == {201, 400}

BookEvents ==
    { Event(<<"a">>, <<"c">>, 1, HHMM(18, 0)),
      Event(<<"a", "b">>, <<"c">>, 2, HHMM(18, 0)),
      Event(<<"a">>, <<"c">>, 2, HHMM(18, 0)) }

RECURSIVE Schedules(_)
Schedules(n) ==
    IF n = 0 THEN { << >> }
    ELSE Schedules(n - 1) \cup
         { s \o <<e>> : s \in { t \in Schedules(n - 1) : Len(t) = n - 1 },
                        e \in BookEvents }

\* the schedules add can have written: no event twice
BookStores ==
    { s \in Schedules(MaxStore) : \A i, j \in DOMAIN s : i # j => s[i] # s[j] }

Message(kind, waiting, word) == [kind |-> kind, waiting |-> waiting, word |-> word]

\* lines 425-427
AlreadyBooked(group_activity, existing_bookings) ==
    \E i \in DOMAIN existing_bookings :
        existing_bookings[i].groupActivity.id = group_activity.id

\* as Skips, without the end of the booking window
SkipsNoExpiry(now, bookable_earliest, already_booked) ==
    \/ now < bookable_earliest
    \/ already_booked

\* as Skips, without the test of the existing bookings
SkipsNotBooked(now, bookable_earliest, already_booked) ==
    \/ now < bookable_earliest
    \/ now > bookable_earliest + DaySeconds

\* lines 428-432: the condition of the silent continue
Skips(now, bookable_earliest, already_booked) ==
    \/ now < bookable_earliest
    \/ already_booked
    \/ now > bookable_earliest + DaySeconds

\* as IsFull, with a negative count taken for "full"
IsFullNegative(slots_left) == slots_left < 0

\* line 437
IsFull(slots_left) == slots_left = 0

\* lines 419-422: what a cancelled activity adds to the output
CancelledMessages(group_activity) ==
    IF group_activity.cancelled THEN << Message("cancelled", 0, "") >> ELSE << >>

\* lines 424-451: the checks after the cancelled message
Eligibility(group_activity, now, existing_bookings, submitStatus) ==
    LET already_booked == AlreadyBooked(group_activity, existing_bookings)
        waiting_list_length == group_activity.inWaitingList
    IN  IF Skips(now, group_activity.bookableEarliest, already_booked)
        THEN [messages |-> << >>, submitted |-> << >>, status |-> 0]
        ELSE IF IsFull(group_activity.leftToBook)
        THEN [messages |->
                << Message("full", waiting_list_length,
                       IF waiting_list_length > 1 THEN "personer" ELSE "person") >>,
              submitted |-> << >>, status |-> 0]
        ELSE [messages |->
                IF submitStatus = 201 THEN << Message("booked", 0, "") >> ELSE << >>,
              submitted |-> << group_activity.id >>, status |-> submitStatus]

\* as AfterCancelled, with a continue in the cancelled branch
AfterCancelledStops(group_activity, now, existing_bookings, submitStatus) ==
    IF group_activity.cancelled
    THEN [messages |-> << >>, submitted |-> << >>, status |-> 0]
    ELSE Eligibility(group_activity, now, existing_bookings, submitStatus)

\* lines 419-424: the cancelled branch has no continue, so the checks that
\* follow are made for a cancelled activity too
AfterCancelled(group_activity, now, existing_bookings, submitStatus) ==
    Eligibility(group_activity, now, existing_bookings, submitStatus)

\* lines 414-451: the loop body once the lookups have returned
Evaluate(activity, now, existing_bookings, submitStatus) ==
    IF activity = << >>
    THEN [messages |-> << Message("not_scheduled", 0, "") >>,
          submitted |-> << >>, status |-> 0]
    ELSE LET rest == AfterCancelled(activity[1], now, existing_bookings, submitStatus)
         IN  [messages |-> CancelledMessages(activity[1]) \o rest.messages,
              submitted |-> rest.submitted, status |-> rest.status]

\* as AfterIteration, with the exception of a lookup caught in the loop
AfterIterationCaught(raised, index, n) ==
    IF index = n THEN "done" ELSE "loop"

\* where the run stands after the iteration for entry index of n: an
\* exception of a lookup leaves the loop and the command
AfterIteration(raised, index, n) ==
    IF raised # "no" THEN "aborted"
    ELSE IF index = n THEN "done"
    ELSE "loop"

\* _login, lines 220-231, and _get_bookings, lines 190-200
StartRaised(loginStatus, bookingsStatus) ==
    IF loginStatus = 401 THEN "login_unauthorized"
    ELSE IF loginStatus # 200 THEN "login_failed"
    ELSE IF bookingsStatus # 200 THEN "bookings_failed"
    ELSE "no"

\* lines 397-400: up to the first iteration
BookStart ==
    /\ pc = "idle"
    /\ \E now \in BookClocks, loginStatus \in LoginStatuses,
          bookingsStatus \in BookingsStatuses, existing \in ExistingBookings :
        \E raised \in {StartRaised(loginStatus, bookingsStatus)} :
            /\ raised # "no" =>
                   \* a request that is not made has no answer: the inputs
                   \* it would have used are fixed
                   /\ existing = << >>
                   /\ (loginStatus # 200 => bookingsStatus = 200)
            /\ run' = [now |-> now,
                       existing_bookings |-> IF raised = "no" THEN existing ELSE << >>,
                       schedule |-> IF raised = "no" THEN store ELSE << >>,
                       index |-> 1,
                       raised |-> raised]
            /\ pc' = IF raised # "no" THEN "aborted"
                     ELSE IF store = << >> THEN "done"
                     ELSE "loop"
    /\ UNCHANGED <<store, out, prev, resp, res, cur, trace>>

\* lines 400-451: one iteration of the loop; the clock read at line 181
\* is taken to show the instant read at line 397
BookEntry ==
    /\ pc = "loop"
    /\ \E rsp \in BookResponses, submitStatus \in SubmitStatuses :
        LET event == run.schedule[run.index]
        IN  \E upcoming \in {_get_upcoming_group_activity(
                                event.name, event.location, event.weekday,
                                event.time, run.now, rsp)} :
            \E e \in {IF upcoming.raised # "no"
                      THEN [messages |-> << >>, submitted |-> << >>, status |-> 0]
                      ELSE Evaluate(upcoming.activity, run.now,
                                    run.existing_bookings, submitStatus)} :
                \* without a submission its status is not used
                /\ (e.submitted = << >> => submitStatus = 201)
                /\ cur' = [index |-> run.index, activity |-> upcoming.activity,
                           date |-> upcoming.date, messages |-> e.messages,
                           submitted |-> e.submitted, status |-> e.status,
                           raised |-> upcoming.raised]
                /\ trace' = Append(trace, run.index)
                /\ pc' = AfterIteration(upcoming.raised, run.index, Len(run.schedule))
                /\ run' = [run EXCEPT !.index = run.index + 1]
    /\ UNCHANGED <<store, out, prev, resp, res>>

BookInit ==
    /\ store \in BookStores
    /\ out = NoOut
    /\ prev = << >>
    /\ resp = NoResponse
    /\ res = NoOccurrence
    /\ pc = "idle"
    /\ run = NoRun
    /\ cur = NoIteration
    /\ trace = << >>

BookNext == BookStart \/ BookEntry

BookSpec == BookInit /\ [][BookNext]_vars

-----------------------------------------------------------------------------
(* Properties of the store commands, under Spec *)

\* the event the last add or remove named on its command line
NamedEvent == Event(out.name, out.location, out.weekday, out.time)

\* the entries of a schedule that a remove of the named fields matches: name
\* as case-insensitive substring, location case-insensitively, weekday, time
MatchedBy(schedule) ==
    { i \in DOMAIN schedule :
        /\ IsSubstring(Lower(out.name), Lower(schedule[i].name))
        /\ Lower(out.location) = Lower(schedule[i].location)
        /\ out.weekday = schedule[i].weekday
        /\ out.time = schedule[i].time }

CountRows(rows, row) == Cardinality({ i \in DOMAIN rows : rows[i] = row })

\* C1: a remove whose predicate matches two or more stored entries fails
\* with "ambiguous" and leaves the store as it found it.
C1_AmbiguousRemoveLeavesStore ==
    (out.op = "remove" /\ out.kind # "crash" /\ Cardinality(MatchedBy(prev)) >= 2)
        => (out.kind = "ambiguous" /\ store = prev)

\* C2: from an empty store, after any sequence of add and remove commands
\* the store holds no two entries with the same name, location, weekday
\* and time.
C2_NoDuplicateEntries ==
    \A i, j \in DOMAIN store : i # j => store[i] # store[j]

\* two entries are stored and the last command was a remove that removed one
C2_Witness ==
    /\ Len(store) >= 2
    /\ out.op = "remove"
    /\ out.kind = "removed"
    /\ Len(store) < Len(prev)

\* C3: an add of a tuple the store already holds fails with "duplicate" and
\* leaves the store unchanged, whatever the remote system answers; after a
\* successful add, and after any repeated add of the same tuple, the tuple
\* is on exactly one line of the output of list.
C3_DuplicateAddFails ==
    /\ (out.op = "add" /\ out.kind # "crash"
            /\ \E i \in DOMAIN prev : prev[i] = NamedEvent)
        => (out.kind = "duplicate" /\ store = prev)
    /\ (out.op = "add" /\ out.kind \in {"added", "duplicate"})
        => CountRows(ListRows(store), ListRow(NamedEvent)) = 1
    /\ out.op = "list"
        => /\ Len(out.rows) = Len(store)
           /\ \A i \in DOMAIN store : CountRows(out.rows, ListRow(store[i])) = 1

\* an add of a stored tuple was refused although the remote lookup failed
C3_Witness ==
    /\ out.op = "add"
    /\ out.kind = "duplicate"
    /\ resp.busStatus # 200
    /\ Len(store) >= 2

\* some activity of the listing the add received has the name (ignoring
\* case and surrounding blanks) and the local HH:MM start of the add
ListingHasMatch ==
    \E i \in DOMAIN resp.listing :
        /\ Strip(Lower(resp.listing[i].name)) = out.name
        /\ LocalHHMM(resp.listing[i].start) = out.time

LookupsSucceeded ==
    /\ resp.busStatus = 200
    /\ \E i \in DOMAIN resp.units : Lower(resp.units[i].name) = out.location
    /\ resp.actStatus = 200

\* C4: an add of a tuple not yet stored persists the entry only if the
\* lookups succeed and the listing holds a matching activity (same name,
\* same local HH:MM start); otherwise the add fails and the store is left
\* unchanged.
C4_AddChecksRemoteFirst ==
    (out.op = "add" /\ out.kind # "crash"
        /\ \A i \in DOMAIN prev : prev[i] # NamedEvent)
    => /\ store # prev
            => /\ LookupsSucceeded /\ ListingHasMatch
               /\ out.kind = "added"
               /\ store = prev \o <<NamedEvent>>
       /\ ~(LookupsSucceeded /\ ListingHasMatch)
            => /\ store = prev
               /\ out.kind \in {"not_scheduled", "units_failed",
                                "unit_not_found", "activities_failed"}

\* an add found its activity behind another one of the listing, and an
\* entry was stored before
C4_Witness ==
    /\ out.op = "add"
    /\ out.kind = "added"
    /\ Len(resp.listing) = 2
    /\ Len(store) = 2

-----------------------------------------------------------------------------
(* Properties of the occurrence search, under ResolveSpec *)

\* C10: for every weekday number 1..7 and every current date the search
\* ends within 7 iterations at a date d with that ISO weekday and
\* today < d <= today + 7; an entry for today's weekday resolves to
\* today + 7, never to today.
C10_NextOccurrence ==
    res # NoOccurrence
    => /\ res.found
       /\ res.iters <= 7
       /\ isoweekday(res.date) = res.weekday
       /\ res.today < res.date
       /\ res.date <= res.today + 7
       /\ (isoweekday(res.today) = res.weekday => res.date = res.today + 7)
       /\ \A d \in (res.today + 1)..(res.date - 1) : isoweekday(d) # res.weekday

\* the weekday searched for is today's, across the change to summer time
C10_Witness ==
    /\ res # NoOccurrence
    /\ isoweekday(res.today) = res.weekday
    /\ res.today = 6
    /\ res.date = 13

-----------------------------------------------------------------------------
(* Properties of the book run, under BookSpec *)

\* the last iteration found its activity in the listing
Matched == cur.index > 0 /\ cur.raised = "no" /\ cur.activity # << >>

MatchedActivity == cur.activity[1]

\* the id of the matched activity is among the bookings fetched at the start
HoldsBooking ==
    \E i \in DOMAIN run.existing_bookings :
        run.existing_bookings[i].groupActivity.id = MatchedActivity.id

\* bookable_earliest <= now <= bookable_earliest + 24 hours
InWindow ==
    /\ MatchedActivity.bookableEarliest <= run.now
    /\ run.now <= MatchedActivity.bookableEarliest + 24 * 3600

Submitted == cur.submitted # << >>

\* nothing was reported but the "cancelled" notice of a cancelled activity
OnlyCancelledNotice ==
    cur.messages =
        IF MatchedActivity.cancelled THEN << Message("cancelled", 0, "") >> ELSE << >>

\* C5, as claimed: for a matched activity, not already booked and with slots
\* left, a submission is made exactly when now is inside the booking window,
\* and before or after the window the entry is skipped with no message.
C5_WindowAsClaimed ==
    (Matched /\ ~HoldsBooking /\ MatchedActivity.leftToBook # 0)
        => /\ Submitted <=> InWindow
           /\ ~InWindow => cur.messages = << >>

\* C5, amended: for a matched activity, not already booked and with slots
\* left, a submission is made exactly when
\* bookable_earliest <= now <= bookable_earliest + 24 hours; before and
\* after the window no submission is made and nothing is reported except
\* the "cancelled" notice of a cancelled activity.
C5_BookingWindow ==
    (Matched /\ ~HoldsBooking /\ MatchedActivity.leftToBook # 0)
        => /\ Submitted <=> InWindow
           /\ Submitted => cur.submitted = << MatchedActivity.id >>
           /\ ~InWindow => OnlyCancelledNotice

\* a cancelled activity with slots left, 25 hours after booking opened
C5_Witness ==
    /\ Matched /\ ~HoldsBooking /\ MatchedActivity.leftToBook # 0
    /\ run.now = MatchedActivity.bookableEarliest + 25 * 3600
    /\ MatchedActivity.cancelled
    /\ ~Submitted

\* C6, as claimed: no submission is made for an activity the user already
\* holds a booking for, and the entry is skipped without a message.
C6_BookedAsClaimed ==
    (Matched /\ HoldsBooking) => (~Submitted /\ cur.messages = << >>)

\* C6, amended: no submission is made for an activity whose id is among the
\* existing bookings fetched at the start of the run, whatever the window,
\* the slots and the cancelled flag; nothing is reported for the entry
\* except the "cancelled" notice of a cancelled activity.
C6_NeverSubmitsBooked ==
    /\ (Matched /\ HoldsBooking) => (~Submitted /\ OnlyCancelledNotice)
    /\ Submitted => (Matched /\ ~HoldsBooking)

\* a cancelled activity, already booked, inside its window, with slots left
C6_Witness ==
    /\ Matched /\ HoldsBooking /\ InWindow
    /\ MatchedActivity.leftToBook # 0
    /\ MatchedActivity.cancelled
    /\ Len(trace) >= 2

\* C7: for a matched activity inside its window and not already booked,
\* leftToBook = 0 gives a "full" message with the length of the waiting
\* list and no submission; a submission is made only when leftToBook # 0.
C7_FullIsReported ==
    /\ (Matched /\ ~HoldsBooking /\ InWindow /\ MatchedActivity.leftToBook = 0)
        => /\ ~Submitted
           /\ \E i \in DOMAIN cur.messages :
                /\ cur.messages[i].kind = "full"
                /\ cur.messages[i].waiting = MatchedActivity.inWaitingList
                /\ i = Len(cur.messages)
    /\ Submitted => MatchedActivity.leftToBook # 0
    /\ (\E i \in DOMAIN cur.messages : cur.messages[i].kind = "full")
        => (Matched /\ MatchedActivity.leftToBook = 0)

\* a full activity with three on the waiting list
C7_Witness ==
    /\ Matched /\ ~HoldsBooking /\ InWindow
    /\ MatchedActivity.leftToBook = 0
    /\ MatchedActivity.inWaitingList = 3
    /\ cur.messages = << Message("full", 3, "personer") >>

\* C8: the entries are evaluated one at a time in store order; an outcome
\* of an entry (not found, too early, already booked, window expired, full,
\* rejected submission) leaves the run in its loop, or ends it after the
\* last entry; a failed lookup (login, bookings, business units, listing)
\* aborts the run with no entry evaluated after it.
C8_AbortOnLookupFailure ==
    /\ trace = [i \in 1..Len(trace) |-> i]
    /\ pc \in {"loop", "done"} => run.schedule = store
    /\ pc = "loop"
        => /\ run.raised = "no" /\ cur.raised = "no"
           /\ run.index = Len(trace) + 1
           /\ run.index <= Len(run.schedule)
    /\ pc = "done"
        => /\ run.raised = "no" /\ cur.raised = "no"
           /\ Len(trace) = Len(run.schedule)
    /\ pc = "aborted"
        => \/ run.raised # "no" /\ trace = << >> /\ cur = NoIteration
           \/ run.raised = "no" /\ cur.raised # "no" /\ cur.index = Len(trace)
    /\ (run.raised # "no" \/ cur.raised # "no")
        => /\ pc = "aborted"
           /\ ~ENABLED BookEntry
    /\ cur.raised # "no" => (~Submitted /\ cur.messages = << >>)
    /\ Len(trace) > 0 => cur.index = Len(trace)

\* the listing failed for the second of three entries
C8_Witness ==
    /\ pc = "aborted"
    /\ Len(store) = 3
    /\ trace = <<1, 2>>
    /\ cur.raised = "activities_failed"

\* the outcome of the last iteration without its "cancelled" notice
RestOfOutcome ==
    [messages |-> Tail(cur.messages), submitted |-> cur.submitted,
     status |-> cur.status]

\* the outcome for the same activity, not cancelled, with the same clock,
\* bookings and answer to a submission
OutcomeIfNotCancelled ==
    Evaluate(<< [MatchedActivity EXCEPT !.cancelled = FALSE] >>, run.now,
             run.existing_bookings, IF Submitted THEN cur.status ELSE 201)

\* C9: for a matched activity with cancelled = true a "cancelled" message
\* is reported first, and what follows (silent skip, "full" report or
\* submission) is what the same activity with cancelled = false gets.
C9_CancelledContinues ==
    (Matched /\ MatchedActivity.cancelled)
        => /\ cur.messages # << >>
           /\ Head(cur.messages) = Message("cancelled", 0, "")
           /\ (Submitted \/ RestOfOutcome.status = 0)
           /\ (Submitted => RestOfOutcome = OutcomeIfNotCancelled)
           /\ (~Submitted =>
                 /\ OutcomeIfNotCancelled.submitted = << >>
                 /\ OutcomeIfNotCancelled.messages = RestOfOutcome.messages)

\* a cancelled activity was submitted for booking, and booked
C9_Witness ==
    /\ Matched /\ MatchedActivity.cancelled
    /\ Submitted
    /\ cur.messages = << Message("cancelled", 0, ""), Message("booked", 0, "") >>

====
